---- MODULE Spec2Model ----
(***************************************************************************)
(* Model of the logger/exporter composition of src/src/config.rs:          *)
(* LoggerExt::init_logger and the helpers it calls, run by a process that  *)
(* may call init_logger several times and emits events between the calls.  *)
(*                                                                         *)
(* An error_stack Report is modelled as the sequence of its contexts, the  *)
(* most recent one last; current_context() is the last element.            *)
(***************************************************************************)
EXTENDS Integers, Sequences, FiniteSets, TLC

\* ------------------------------------------------------------------ bounds
\* Number of init_logger calls one process makes.
MaxCalls == 2
\* Largest number of contexts of a Report handed to disable_on_error.
MaxCtx == 3

\* ------------------------------------------------------------- data model
None == "None"

\* LoggerError (config.rs 172-182)
LoggerError == {"EmptyConfig", "NoFileName", "NotEnabled", "OLTPInitFailed"}

\* Context of the opentelemetry TraceError that install_batch reports.
TraceError == "TraceError"

\* tracing::Level, the type of LoggerConfig::trace_level
Levels == {"ERROR", "WARN", "INFO", "DEBUG", "TRACE"}

\* Severity order of tracing::Level: ERROR is the most severe.
Severity(l) ==
    CASE l = "TRACE" -> 1
      [] l = "DEBUG" -> 2
      [] l = "INFO"  -> 3
      [] l = "WARN"  -> 4
      [] l = "ERROR" -> 5

\* log_file : Option<PathBuf>: absent (None), the empty path, or a usable path
Paths == {None, "", "bob.log"}

\* An Option<section> of the configuration is a record with a `present` flag;
\* an absent section carries no other information.
AbsentFile == [present |-> FALSE, enabled |-> FALSE, log_file |-> None]
AbsentStdout == [present |-> FALSE, enabled |-> FALSE]

\* LoggerConfig::file : Option<FileSinkConfig>
FileConfigs ==
    {AbsentFile} \cup [present : {TRUE}, enabled : BOOLEAN, log_file : Paths]

\* LoggerConfig::stdout : Option<StdoutSinkConfig>
StdoutConfigs == {AbsentStdout} \cup [present : {TRUE}, enabled : BOOLEAN]

\* LoggerConfig as read by init_logger
LoggerConfig == [trace_level : Levels, file : FileConfigs, stdout : StdoutConfigs]

\* Option<T>: Some(x) is the one-element sequence, None the empty one, so that
\* Iterator::flatten over options is concatenation.
Some(x) == <<x>>
NoneOpt == <<>>

\* Result<T, Report<LoggerError>>: val holds the value of an Ok, err the report
\* of an Err.
Ok(v) == [ok |-> TRUE, val |-> <<v>>, err |-> <<>>]
Err(report) == [ok |-> FALSE, val |-> <<>>, err |-> report]
Unwrap(res) == res.val[1]

\* Report::current_context
current_context(report) == report[Len(report)]

\* ResultExt::change_context: pushes a context on the report of an Err
change_context(res, ctx) ==
    IF res.ok THEN res ELSE Err(Append(res.err, ctx))

\* A layer without a per-layer filter receives every event.
NoFilter == "NoFilter"

\* fmt::layer().with_writer(writer).with_filter(LevelFilter::from_level(level))
FmtLayer(writer, level) == [kind |-> writer, filter |-> level]

\* tracing_opentelemetry::layer().with_tracer(tracer): no filter attached
OtelLayer == [kind |-> "otel", filter |-> NoFilter]

\* A level filter with the order of the levels reversed.
Enabled_reversed(layer, ev) ==
    \/ layer.filter = NoFilter
    \/ Severity(ev) <= Severity(layer.filter)

\* LevelFilter::from_level(l) lets through the events at least as severe as l
Enabled(layer, ev) ==
    \/ layer.filter = NoFilter
    \/ Severity(ev) >= Severity(layer.filter)

VARIABLES
    pc,            \* position of the process in init_logger, "idle" outside it
    nCalls,        \* init_logger calls started so far
    cfg,           \* the LoggerConfig of the current call (self)
    otlpUp,        \* whether install_batch can build the pipeline in this call
    logger,        \* the Result handed to disable_on_error
    disabled,      \* the Result disable_on_error returned
    file_writer,   \* Option: the file sink handle
    stdout_writer, \* Option: the stdout sink handle
    guards,        \* the local Vec<WorkerGuard>
    layers,        \* the chain composed so far, in order
    spawned,       \* background writer threads spawned by the current call
    metricsCalls,  \* init_metrics invocations of the current call
    metricsRes,    \* what init_metrics returned in the current call
    promInit,      \* the global prometheus exporter is initialised
    installed,     \* the global default subscriber: None or its chain
    installedAtCall, \* the global subscriber when the current call started
    result,        \* what the last init_logger call returned
    steps,         \* the steps the current call has taken, in order
    lastEvent      \* the last event emitted and the layers that took it

vars == <<pc, nCalls, cfg, otlpUp, logger, disabled, file_writer, stdout_writer,
          guards, layers, spawned, metricsCalls, metricsRes, promInit,
          installed, installedAtCall, result, steps, lastEvent>>

NoResult == [kind |-> "none", guards |-> <<>>, err |-> <<>>]
OkResult(g) == [kind |-> "ok", guards |-> g, err |-> <<>>]
ErrResult(report) == [kind |-> "err", guards |-> <<>>, err |-> report]
PanicResult == [kind |-> "panic", guards |-> <<>>, err |-> <<>>]

NoEvent == [level |-> None, post |-> FALSE, delivered |-> {}]

DefaultConfig ==
    [trace_level |-> "INFO", file |-> AbsentFile, stdout |-> AbsentStdout]

\* No Result yet: disable_on_error has not run on the current `logger`.
Pending == [ok |-> FALSE, val |-> <<>>, err |-> <<>>]

\* The global default subscriber slot
NotInstalled == [set |-> FALSE, chain |-> <<>>]
Subscriber(chain) == [set |-> TRUE, chain |-> chain]

\* ------------------------------------------------------------ sink builder
\* tracing_appender::non_blocking(dest): the (NonBlocking, WorkerGuard) pair of
\* one freshly spawned worker thread writing to dest.
non_blocking(dest) == [writer |-> dest, guard |-> dest]

\* init_file_rotate without the check for the empty path.
init_file_rotate_no_empty_check(c) ==
    IF ~c.file.present THEN Err(<<"EmptyConfig">>)
    ELSE IF c.file.log_file = None THEN Err(<<"NoFileName">>)
    ELSE Ok("file")

\* init_file_rotate: the rotating stream, or why there is none
init_file_rotate(c) ==
    IF ~c.file.present THEN Err(<<"EmptyConfig">>)
    ELSE IF c.file.log_file = None THEN Err(<<"NoFileName">>)
    ELSE IF c.file.log_file = "" THEN Err(<<"NoFileName">>)
    ELSE Ok("file")

\* non_blocking_file_writer that opens the file before it looks at `enabled`.
non_blocking_file_writer_path_first(c) ==
    IF ~c.file.present THEN Err(<<"EmptyConfig">>)
    ELSE LET rotate == init_file_rotate(c)
         IN  IF ~rotate.ok THEN rotate
             ELSE IF c.file.enabled THEN Ok(non_blocking(Unwrap(rotate)))
             ELSE Err(<<"NotEnabled">>)

\* non_blocking_file_writer
non_blocking_file_writer(c) ==
    IF ~c.file.present THEN Err(<<"EmptyConfig">>)
    ELSE IF c.file.enabled
         THEN LET rotate == init_file_rotate(c)
              IN  IF rotate.ok THEN Ok(non_blocking(Unwrap(rotate))) ELSE rotate
         ELSE Err(<<"NotEnabled">>)

\* non_blocking_stdout_writer
non_blocking_stdout_writer(c) ==
    IF ~c.stdout.present THEN Err(<<"EmptyConfig">>)
    ELSE IF c.stdout.enabled
         THEN Ok(non_blocking("stdout"))
         ELSE Err(<<"NotEnabled">>)

\* Worker threads a sink builder spawned: one per handle it returned.
Spawns(res) == IF res.ok THEN 1 ELSE 0

\* ------------------------------------------------------ degradation policy
\* disable_on_error that classifies a report by its first context, not by its
\* current one.
disable_on_error_first_context(l) ==
    IF l.ok THEN Ok(Some(Unwrap(l)))
    ELSE IF l.err[1] \in {"NotEnabled", "EmptyConfig"}
         THEN Ok(NoneOpt)
         ELSE Err(l.err)

\* disable_on_error
disable_on_error(l) ==
    IF l.ok THEN Ok(Some(Unwrap(l)))
    ELSE IF current_context(l.err) \in {"NotEnabled", "EmptyConfig"}
         THEN Ok(NoneOpt)
         ELSE Err(l.err)

\* ------------------------------------------------------- exporter
\* init_metrics that takes a failed pipeline for a working one.
init_metrics_never_fails(up) == Ok(OtelLayer)

\* init_metrics after the prometheus exporter is up: the OTLP pipeline and the
\* layer over its tracer, or the pipeline's error under OLTPInitFailed.
init_metrics(up) ==
    IF up THEN Ok(OtelLayer)
    ELSE change_context(Err(<<TraceError>>), "OLTPInitFailed")

\* ------------------------------------------------------------ layer composer
\* A fold that chains each next layer in front of the chain instead of behind it.
RECURSIVE FoldLayers_prepending(_, _, _)
FoldLayers_prepending(chain, rest, level) ==
    IF rest = <<>> THEN chain
    ELSE FoldLayers_prepending(<<FmtLayer(rest[1].writer, level)>> \o chain,
                               Tail(rest), level)

\* The fold of lines 91-93 over the sinks after the first: each next layer is
\* built (its guard pushed, its level filter attached) and chained with and_then.
RECURSIVE FoldLayers(_, _, _)
FoldLayers(chain, rest, level) ==
    IF rest = <<>> THEN chain
    ELSE FoldLayers(Append(chain, FmtLayer(rest[1].writer, level)), Tail(rest), level)

\* A fold whose closure does not push the guard of the layers it builds.
FoldGuards_dropping(g, rest) == g

RECURSIVE FoldGuards(_, _)
FoldGuards(g, rest) ==
    IF rest = <<>> THEN g
    ELSE FoldGuards(Append(g, rest[1].guard), Tail(rest))

RECURSIVE FoldSteps(_, _)
FoldSteps(st, rest) ==
    IF rest = <<>> THEN st
    ELSE FoldSteps(st \o <<"filter_" \o rest[1].writer, "compose">>, Tail(rest))

\* The layers of a chain that take an event, in the chain's order
Dispatch(chain, ev) ==
    {chain[i].kind : i \in {j \in DOMAIN chain : Enabled(chain[j], ev)}}

\* --------------------------------------------------------------- the process
Init ==
    /\ pc = "idle"
    /\ nCalls = 0
    /\ cfg = DefaultConfig
    /\ otlpUp = TRUE
    /\ logger = Pending
    /\ disabled = Pending
    /\ file_writer = NoneOpt
    /\ stdout_writer = NoneOpt
    /\ guards = <<>>
    /\ layers = <<>>
    /\ spawned = 0
    /\ metricsCalls = 0
    /\ metricsRes = "none"
    /\ promInit = FALSE
    /\ installed = NotInstalled
    /\ installedAtCall = NotInstalled
    /\ result = NoResult
    /\ steps = <<>>
    /\ lastEvent = NoEvent

\* main calls logger.init_logger(): line 74, the locals of a fresh call
Call(c, up) ==
    /\ pc = "idle"
    /\ nCalls < MaxCalls
    /\ nCalls' = nCalls + 1
    /\ cfg' = c
    /\ otlpUp' = up
    /\ logger' = Pending
    /\ disabled' = Pending
    /\ file_writer' = NoneOpt
    /\ stdout_writer' = NoneOpt
    /\ guards' = <<>>
    /\ layers' = <<>>
    /\ spawned' = 0
    /\ metricsCalls' = 0
    /\ metricsRes' = "none"
    /\ installedAtCall' = installed
    /\ result' = NoResult
    /\ steps' = <<>>
    /\ pc' = "build_file"
    /\ UNCHANGED <<promInit, installed, lastEvent>>

\* An early return of init_logger with an error: the locals are dropped.
ReturnErr(report) ==
    /\ result' = ErrResult(report)
    /\ guards' = <<>>
    /\ layers' = <<>>
    /\ pc' = "idle"

\* A panic unwinding out of init_logger: the locals are dropped.
Unwind ==
    /\ result' = PanicResult
    /\ guards' = <<>>
    /\ layers' = <<>>
    /\ pc' = "idle"

\* Line 76 with the file sink's result taken as an Option without passing
\* through disable_on_error: every error of the file sink is dropped.
BuildFile_without_disable ==
    /\ pc = "build_file"
    /\ logger' = non_blocking_file_writer(cfg)
    /\ disabled' = Pending
    /\ spawned' = spawned + Spawns(logger')
    /\ steps' = Append(steps, "build_file")
    /\ file_writer' = IF logger'.ok THEN Some(Unwrap(logger')) ELSE NoneOpt
    /\ pc' = "build_stdout"
    /\ UNCHANGED <<nCalls, cfg, otlpUp, stdout_writer, guards, layers,
                   metricsCalls, metricsRes, promInit, installed, installedAtCall,
                   result, lastEvent>>

\* line 76, the argument: self.non_blocking_file_writer()
BuildFile ==
    /\ pc = "build_file"
    /\ logger' = non_blocking_file_writer(cfg)
    /\ disabled' = Pending
    /\ spawned' = spawned + Spawns(logger')
    /\ steps' = Append(steps, "build_file")
    /\ pc' = "disable_file"
    /\ UNCHANGED <<nCalls, cfg, otlpUp, file_writer, stdout_writer, guards, layers,
                   metricsCalls, metricsRes, promInit, installed, installedAtCall,
                   result, lastEvent>>

\* line 76: let file_writer = disable_on_error(..)?
DisableFile ==
    /\ pc = "disable_file"
    /\ disabled' = disable_on_error(logger)
    /\ steps' = Append(steps, "disable_file")
    /\ IF disabled'.ok
       THEN /\ file_writer' = Unwrap(disabled')
            /\ pc' = "build_stdout"
            /\ UNCHANGED <<guards, layers, result>>
       ELSE /\ ReturnErr(disabled'.err)
            /\ UNCHANGED file_writer
    /\ UNCHANGED <<nCalls, cfg, otlpUp, logger, stdout_writer, spawned, metricsCalls,
                   metricsRes, promInit, installed, installedAtCall, lastEvent>>

\* line 77, the argument: self.non_blocking_stdout_writer()
BuildStdout ==
    /\ pc = "build_stdout"
    /\ logger' = non_blocking_stdout_writer(cfg)
    /\ disabled' = Pending
    /\ spawned' = spawned + Spawns(logger')
    /\ steps' = Append(steps, "build_stdout")
    /\ pc' = "disable_stdout"
    /\ UNCHANGED <<nCalls, cfg, otlpUp, file_writer, stdout_writer, guards, layers,
                   metricsCalls, metricsRes, promInit, installed, installedAtCall,
                   result, lastEvent>>

\* line 77: let stdout_writer = disable_on_error(..)?
DisableStdout ==
    /\ pc = "disable_stdout"
    /\ disabled' = disable_on_error(logger)
    /\ steps' = Append(steps, "disable_stdout")
    /\ IF disabled'.ok
       THEN /\ stdout_writer' = Unwrap(disabled')
            /\ pc' = "first_layer"
            /\ UNCHANGED <<guards, layers, result>>
       ELSE /\ ReturnErr(disabled'.err)
            /\ UNCHANGED stdout_writer
    /\ UNCHANGED <<nCalls, cfg, otlpUp, logger, file_writer, spawned, metricsCalls,
                   metricsRes, promInit, installed, installedAtCall, lastEvent>>

\* Lines 79-90 with init_metrics hoisted out of the if-let: the exporter is
\* initialised whether or not a sink was built.
FirstLayer_always_metrics ==
    /\ pc = "first_layer"
    /\ LET writers == file_writer \o stdout_writer
       IN  IF writers = <<>>
           THEN /\ pc' = "init_metrics"
                /\ UNCHANGED <<guards, layers, steps, result>>
           ELSE /\ guards' = Append(guards, writers[1].guard)
                /\ layers' = <<FmtLayer(writers[1].writer, cfg.trace_level)>>
                /\ steps' = Append(steps, "filter_" \o writers[1].writer)
                /\ pc' = "fold"
                /\ UNCHANGED result
    /\ UNCHANGED <<nCalls, cfg, otlpUp, logger, disabled, file_writer, stdout_writer,
                   spawned, metricsCalls, metricsRes, promInit, installed,
                   installedAtCall, lastEvent>>

\* lines 79-90: the lazy iterator over the present writers and its first item;
\* with no writer the if-let is skipped and line 101 returns Ok(guards).
FirstLayer ==
    /\ pc = "first_layer"
    /\ LET writers == file_writer \o stdout_writer
       IN  IF writers = <<>>
           THEN /\ result' = OkResult(guards)
                /\ pc' = "idle"
                /\ UNCHANGED <<guards, layers, steps>>
           ELSE /\ guards' = Append(guards, writers[1].guard)
                /\ layers' = <<FmtLayer(writers[1].writer, cfg.trace_level)>>
                /\ steps' = Append(steps, "filter_" \o writers[1].writer)
                /\ pc' = "fold"
                /\ UNCHANGED result
    /\ UNCHANGED <<nCalls, cfg, otlpUp, logger, disabled, file_writer, stdout_writer,
                   spawned, metricsCalls, metricsRes, promInit, installed,
                   installedAtCall, lastEvent>>

\* lines 91-93: fold the remaining layers onto the first
Fold ==
    /\ pc = "fold"
    /\ LET rest == Tail(file_writer \o stdout_writer)
       IN  /\ guards' = FoldGuards(guards, rest)
           /\ layers' = FoldLayers(layers, rest, cfg.trace_level)
           /\ steps' = FoldSteps(steps, rest)
    /\ pc' = "init_metrics"
    /\ UNCHANGED <<nCalls, cfg, otlpUp, logger, disabled, file_writer, stdout_writer,
                   spawned, metricsCalls, metricsRes, promInit, installed,
                   installedAtCall, result, lastEvent>>

\* lines 94-97 and 146-169: init_metrics, change_context, `?`, and_then.
\* autometrics::prometheus_exporter::init() on an exporter that is already
\* initialised is outside this repository: both of its outcomes, a panic and a
\* no-op, are taken.
InitMetrics ==
    /\ pc = "init_metrics"
    /\ metricsCalls' = metricsCalls + 1
    /\ steps' = Append(steps, "init_metrics")
    /\ promInit' = TRUE
    /\ \E panics \in (IF promInit THEN BOOLEAN ELSE {FALSE}) :
          IF panics
          THEN /\ metricsRes' = "panic"
               /\ Unwind
          ELSE LET res == change_context(init_metrics(otlpUp), "OLTPInitFailed")
               IN  IF res.ok
                   THEN /\ metricsRes' = "ok"
                        /\ layers' = Append(layers, Unwrap(res))
                        /\ pc' = "install"
                        /\ UNCHANGED <<guards, result>>
                   ELSE /\ metricsRes' = "err"
                        /\ ReturnErr(res.err)
    /\ UNCHANGED <<nCalls, cfg, otlpUp, logger, disabled, file_writer, stdout_writer,
                   spawned, installed, installedAtCall, lastEvent>>

\* A second installation that silently replaces the installed chain.
try_init_replacing(cur, chain) == [ok |-> TRUE, sub |-> Subscriber(chain)]

\* line 98, registry().with(layers).init(): the global default subscriber is
\* set only when none is set yet; otherwise init fails and the slot is kept.
try_init(cur, chain) ==
    IF cur.set THEN [ok |-> FALSE, sub |-> cur]
    ELSE [ok |-> TRUE, sub |-> Subscriber(chain)]

\* lines 98-101: registry().with(layers).init(), then Ok(guards).
\* SubscriberInitExt::init panics when the installation fails.
Install ==
    /\ pc = "install"
    /\ steps' = Append(steps, "install")
    /\ LET set == try_init(installed, layers)
       IN  /\ installed' = set.sub
           /\ IF set.ok
              THEN /\ result' = OkResult(guards)
                   /\ pc' = "idle"
                   /\ UNCHANGED <<guards, layers>>
              ELSE Unwind
    /\ UNCHANGED <<nCalls, cfg, otlpUp, logger, disabled, file_writer, stdout_writer,
                   spawned, metricsCalls, metricsRes, promInit, installedAtCall,
                   lastEvent>>

\* main.rs 17, 20, 40: tracing::info! and any other event of the process,
\* dispatched to the global default subscriber.
Emit(ev) ==
    /\ pc = "idle"
    /\ lastEvent' = [level |-> ev, post |-> installed.set,
                     delivered |-> Dispatch(installed.chain, ev)]
    /\ UNCHANGED <<pc, nCalls, cfg, otlpUp, logger, disabled, file_writer,
                   stdout_writer, guards, layers, spawned, metricsCalls, metricsRes,
                   promInit, installed, installedAtCall, result, steps>>

Next ==
    \/ \E c \in LoggerConfig, up \in BOOLEAN : Call(c, up)
    \/ BuildFile
    \/ DisableFile
    \/ BuildStdout
    \/ DisableStdout
    \/ FirstLayer
    \/ Fold
    \/ InitMetrics
    \/ Install
    \/ \E ev \in Levels : Emit(ev)

Spec == Init /\ [][Next]_vars

\* ------------------------------------------- disable_on_error on its own
\* The contexts a Report<LoggerError> can hold below its current one
Contexts == LoggerError \cup {TraceError}

\* The reports of at most MaxCtx contexts; the current context is a LoggerError
Reports ==
    {r \in UNION {[1..n -> Contexts] : n \in 1..MaxCtx} :
        current_context(r) \in LoggerError}

\* Every Result<(NonBlocking, WorkerGuard), LoggerError> within the bounds
LoggerResults ==
    {Ok(non_blocking(dest)) : dest \in {"file", "stdout"}}
        \cup {Err(r) : r \in Reports}

\* The process before a direct call of disable_on_error(logger)
InitDisable ==
    /\ pc = "probe"
    /\ logger \in LoggerResults
    /\ nCalls = 0
    /\ cfg = DefaultConfig
    /\ otlpUp = TRUE
    /\ disabled = Pending
    /\ file_writer = NoneOpt
    /\ stdout_writer = NoneOpt
    /\ guards = <<>>
    /\ layers = <<>>
    /\ spawned = 0
    /\ metricsCalls = 0
    /\ metricsRes = "none"
    /\ promInit = FALSE
    /\ installed = NotInstalled
    /\ installedAtCall = NotInstalled
    /\ result = NoResult
    /\ steps = <<>>
    /\ lastEvent = NoEvent

\* disable_on_error(logger), lines 185-195, called on its own
DisableProbe ==
    /\ pc = "probe"
    /\ disabled' = disable_on_error(logger)
    /\ pc' = "idle"
    /\ UNCHANGED <<nCalls, cfg, otlpUp, logger, file_writer, stdout_writer, guards,
                   layers, spawned, metricsCalls, metricsRes, promInit, installed,
                   installedAtCall, result, steps, lastEvent>>

NextDisable ==
    \/ DisableProbe
    \/ Next

SpecDisable == InitDisable /\ [][NextDisable]_vars

TypeOK ==
    /\ pc \in {"idle", "probe", "build_file", "disable_file", "build_stdout",
               "disable_stdout", "first_layer", "fold", "init_metrics", "install"}
    /\ nCalls \in 0..MaxCalls
    /\ cfg \in LoggerConfig
    /\ spawned \in 0..2
    /\ metricsCalls \in 0..1
    /\ Len(guards) <= 2
    /\ Len(layers) <= 3

\* ------------------------------------------------------------------ claims
\* The current call has returned (or unwound) to its caller.
Returned == pc = "idle" /\ nCalls > 0

\* The file section asks for a file sink and names no usable path.
FileMisconfigured(c) ==
    c.file.present /\ c.file.enabled /\ c.file.log_file \in {None, ""}

\* The sinks a configuration asks for and can have, in the order of line 80
ActiveSinks(c) ==
    (IF c.file.present /\ c.file.enabled /\ c.file.log_file \notin {None, ""}
     THEN <<"file">> ELSE <<>>)
    \o (IF c.stdout.present /\ c.stdout.enabled THEN <<"stdout">> ELSE <<>>)

\* Steps of the current call, as a set
StepSet == {steps[i] : i \in DOMAIN steps}

\* C1: a call whose file sink is present and enabled but has no path or the
\* empty path spawns no writer thread, never builds the stdout sink, leaves
\* the global subscriber as it found it, and returns the NoFileName error
\* with no guards, whatever the stdout section says.
C1_NoFileNameFails ==
    (nCalls > 0 /\ FileMisconfigured(cfg)) =>
        /\ spawned = 0
        /\ "build_stdout" \notin StepSet
        /\ installed = installedAtCall
        /\ Returned => result = ErrResult(<<"NoFileName">>)

C1_Witness ==
    /\ Returned
    /\ FileMisconfigured(cfg)
    /\ cfg.file.log_file = ""
    /\ cfg.stdout.present /\ cfg.stdout.enabled
    /\ result.kind = "err"

\* C2: a call that built at least one sink and whose trace exporter cannot be
\* initialised returns an error whose current context is OLTPInitFailed, with
\* no guards, and leaves the global subscriber as it found it.
C2_ExporterFailureIsFatal ==
    (Returned /\ spawned >= 1 /\ ~otlpUp /\ metricsRes # "panic") =>
        /\ result.kind = "err"
        /\ current_context(result.err) = "OLTPInitFailed"
        /\ result.guards = <<>>
        /\ installed = installedAtCall

C2_Witness ==
    /\ Returned
    /\ ActiveSinks(cfg) = <<"file", "stdout">>
    /\ ~otlpUp
    /\ spawned = 2
    /\ result.kind = "err"
    /\ ~installed.set

\* C3: a call whose file and stdout sections are each absent or disabled
\* (a disabled file section may lack a path) returns Ok with zero guards,
\* spawns no writer thread and leaves the global subscriber as it found it.
C3_NoSinksSucceeds ==
    (nCalls > 0 /\ ~(cfg.file.present /\ cfg.file.enabled)
                /\ ~(cfg.stdout.present /\ cfg.stdout.enabled)) =>
        /\ spawned = 0
        /\ installed = installedAtCall
        /\ Returned => result = OkResult(<<>>)

C3_Witness ==
    /\ Returned
    /\ cfg.file.present /\ ~cfg.file.enabled /\ cfg.file.log_file = None
    /\ cfg.stdout.present /\ ~cfg.stdout.enabled
    /\ result.kind = "ok"

\* C4: a successful call returns exactly one guard per sink that is present,
\* enabled and (for the file sink) has a non-empty path, in the sinks' order,
\* and has spawned exactly that many writer threads: 0, 1 or 2.
C4_OneGuardPerSink ==
    (Returned /\ result.kind = "ok") =>
        /\ result.guards = ActiveSinks(cfg)
        /\ spawned = Len(result.guards)
        /\ Len(result.guards) \in 0..2

C4_Witness ==
    /\ Returned
    /\ result.kind = "ok"
    /\ result.guards = <<"file", "stdout">>
    /\ spawned = 2

\* C5: disable_on_error returns Some(handle) for a success, None without an
\* error for a report whose current context is EmptyConfig or NotEnabled, and
\* any other report unchanged as an error; so init_logger never returns a soft
\* error and returns every hard error of a sink builder.
C5_DisableOnError ==
    /\ disabled # Pending =>
          /\ logger.ok => disabled = Ok(Some(Unwrap(logger)))
          /\ (~logger.ok /\ current_context(logger.err) \in {"EmptyConfig", "NotEnabled"})
                => disabled = Ok(NoneOpt)
          /\ (~logger.ok /\ current_context(logger.err) \in {"NoFileName", "OLTPInitFailed"})
                => disabled = Err(logger.err)
    /\ result.kind = "err" =>
          current_context(result.err) \notin {"EmptyConfig", "NotEnabled"}
    /\ (Returned /\ logger # Pending /\ ~logger.ok
          /\ current_context(logger.err) \notin {"EmptyConfig", "NotEnabled"})
          => result = ErrResult(logger.err)

C5_Witness ==
    /\ pc = "idle"
    /\ nCalls = 0
    /\ ~logger.ok
    /\ Len(logger.err) > 1
    /\ logger.err[1] = "EmptyConfig"
    /\ current_context(logger.err) = "OLTPInitFailed"
    /\ disabled = Err(logger.err)

\* C6: once a global subscriber is installed no step changes it, and a call
\* that reaches the install step while one is installed panics instead of
\* returning.
C6_InstalledAtMostOnce ==
    [][installed.set =>
          /\ installed' = installed
          /\ (pc = "install" /\ pc' = "idle") => result'.kind = "panic"]_vars

C6_Witness ==
    /\ Returned
    /\ installedAtCall.set
    /\ "install" \in StepSet
    /\ result.kind = "panic"
    /\ installed = installedAtCall
    /\ installed.chain # layers

\* C7: the chain a successful call installs has one layer per active sink,
\* each filtering by the call's trace_level; an event emitted once a chain is
\* installed is written by a sink layer exactly when its severity is at least
\* that layer's level.
C7_SinksFilterByLevel ==
    /\ (Returned /\ result.kind = "ok" /\ ActiveSinks(cfg) # <<>>) =>
          /\ installed.set
          /\ \A s \in {"file", "stdout"} :
                (\E i \in DOMAIN installed.chain : installed.chain[i].kind = s)
                    <=> (\E k \in DOMAIN ActiveSinks(cfg) : ActiveSinks(cfg)[k] = s)
          /\ \A i \in DOMAIN installed.chain :
                installed.chain[i].kind # "otel"
                    => installed.chain[i].filter = cfg.trace_level
    /\ lastEvent.post =>
          \A i \in DOMAIN installed.chain :
              installed.chain[i].kind # "otel" =>
                  (installed.chain[i].kind \in lastEvent.delivered
                      <=> Severity(lastEvent.level)
                              >= Severity(installed.chain[i].filter))

C7_Witness ==
    /\ lastEvent.post
    /\ lastEvent.level = "DEBUG"
    /\ installed.chain = <<FmtLayer("stdout", "INFO"), OtelLayer>>
    /\ "stdout" \notin lastEvent.delivered

\* The steps that may come right before a step
Before(step) ==
    CASE step = "build_file" -> {}
      [] step = "disable_file" -> {"build_file"}
      [] step = "build_stdout" -> {"disable_file"}
      [] step = "disable_stdout" -> {"build_stdout"}
      [] step = "filter_file" -> {"disable_stdout"}
      [] step = "filter_stdout" -> {"disable_stdout", "filter_file"}
      [] step = "compose" -> {"filter_stdout"}
      [] step = "init_metrics" -> {"filter_file", "filter_stdout", "compose"}
      [] step = "install" -> {"init_metrics"}

\* C8 as stated: all sinks are built before any is filtered, so when the
\* degradation policy has passed on a built sink, every sink the call builds
\* has its writer thread already; and an installed subscriber is never left.
C8_AllBuiltBeforeAnyFiltered ==
    /\ (disabled # Pending /\ disabled.ok /\ Unwrap(disabled) # NoneOpt) =>
          spawned = Len(ActiveSinks(cfg))
    /\ (nCalls > 0 /\ installedAtCall.set) => installed = installedAtCall

\* C8 amended: a call builds the file sink and filters its result, then builds
\* the stdout sink and filters its result, then builds a level-filtered layer
\* per surviving sink, chains them, initialises the exporter and installs; no
\* step is skipped or reordered, installing ends the call, and an installed
\* subscriber is never left.
C8_StartupOrder ==
    /\ \A i \in DOMAIN steps :
          IF i = 1 THEN steps[i] = "build_file"
          ELSE steps[i - 1] \in Before(steps[i])
    /\ "compose" \in StepSet => {"filter_file", "filter_stdout"} \subseteq StepSet
    /\ "install" \in StepSet => pc = "idle"
    /\ (nCalls > 0 /\ installedAtCall.set) => installed = installedAtCall
    /\ (nCalls > 0 /\ installed # installedAtCall) =>
          /\ steps[Len(steps)] = "install"
          /\ result.kind = "ok"

C8_Witness ==
    /\ Returned
    /\ steps = <<"build_file", "disable_file", "build_stdout", "disable_stdout",
                 "filter_file", "filter_stdout", "compose", "init_metrics",
                 "install">>
    /\ installed.set
    /\ ~installedAtCall.set

\* C9: the chain a successful call installs is the file layer (if built),
\* then the stdout layer (if built), then the exporter layer, once and last;
\* a call with a sink and a working exporter installs it unless a subscriber
\* is already set; every event emitted once a chain is installed reaches the
\* exporter layer.
C9_ExporterLastAndUnfiltered ==
    /\ (Returned /\ result.kind = "ok" /\ ActiveSinks(cfg) # <<>>) =>
          installed.chain =
              [i \in 1..Len(ActiveSinks(cfg)) |->
                    FmtLayer(ActiveSinks(cfg)[i], cfg.trace_level)]
              \o <<OtelLayer>>
    /\ (Returned /\ spawned >= 1 /\ metricsRes = "ok"
          /\ ~installedAtCall.set) => result.kind = "ok"
    /\ installed.set =>
          /\ installed.chain[Len(installed.chain)] = OtelLayer
          /\ \A i \in 1..(Len(installed.chain) - 1) :
                installed.chain[i].kind # "otel"
    /\ lastEvent.post => "otel" \in lastEvent.delivered

C9_Witness ==
    /\ lastEvent.post
    /\ lastEvent.level = "TRACE"
    /\ Len(installed.chain) = 3
    /\ installed.chain[1].kind = "file"
    /\ installed.chain[1].filter = "ERROR"
    /\ lastEvent.delivered = {"otel"}

\* C10: a call invokes init_metrics at most once, and exactly when it built
\* at least one sink; a first call with no sink leaves the prometheus exporter
\* uninitialised and returns Ok with zero guards even when the trace exporter
\* could not have been initialised.
C10_MetricsOnlyWithSinks ==
    /\ metricsCalls <= 1
    /\ metricsCalls = 1 => spawned >= 1
    /\ Returned => (metricsCalls = 1 <=> spawned >= 1)
    /\ (nCalls = 1 /\ Returned /\ spawned = 0) => ~promInit
    /\ (Returned /\ ActiveSinks(cfg) = <<>> /\ ~FileMisconfigured(cfg)) =>
          /\ metricsCalls = 0
          /\ result = OkResult(<<>>)

C10_Witness ==
    /\ Returned
    /\ nCalls = 1
    /\ ~otlpUp
    /\ spawned = 0
    /\ metricsCalls = 0
    /\ ~promInit
    /\ result = OkResult(<<>>)

====
